---- MODULE Spec2Model ----
(***************************************************************************)
(* Model of src/index.js: a GitHub action that triggers a Jenkins job      *)
(* (triggerJenkinsJob), optionally waits for it (waitJenkinsJob polling    *)
(* getJobStatus every sleepInterval seconds) under a process-wide timeout  *)
(* timer.  The process is a single JavaScript thread: an action of the     *)
(* model is one run-to-completion step between two suspension points (an   *)
(* HTTP request in flight, a sleep), and the timer callback may run at any *)
(* suspension point while the timer is armed.                              *)
(***************************************************************************)
EXTENDS Integers, Sequences, FiniteSets, TLC

\* ---------------------------------------------------------------- constants
FAILURE_THRESHOLD == 10
SUCCESS_THRESHOLD == 3

\* ------------------------------------------------------------------- bounds
\* number of HTTP-200 status responses the environment may deliver in a run
\* (502 responses bound themselves through failureCount)
MaxOkPolls == 6

\* --------------------------------------------------------------- URL values
\* A URL is a sequence of path segments; "/" is the trailing separator.
\* The empty sequence stands for a falsy value (undefined or "").
Falsy == <<>>
QueueUrls == { <<"queue5", "/">>, <<"queue5">> }
BuildUrls == { <<"build5", "/">>, <<"build6">> }

\* ------------------------------------------------------------ HTTP exchange
\* Responses to the trigger POST: a transport error, or a response whose
\* Location header is absent (Falsy) or a queue item URL.
TriggerResponses ==
    { [err |-> TRUE, location |-> Falsy] }
    \cup { [err |-> FALSE, location |-> l] : l \in QueueUrls \cup {Falsy} }

\* Responses to a status GET.  parse tells what JSON.parse(body) does:
\* "invalid" (throws, e.g. an empty body), "null" (a falsy document) or
\* "doc" (an object with the fields below).
NoDoc == [parse |-> "invalid", cancelled |-> FALSE, execUrl |-> Falsy, result |-> "null"]
NullDoc == [parse |-> "null", cancelled |-> FALSE, execUrl |-> Falsy, result |-> "null"]
QueueDocs ==
    { [parse |-> "doc", cancelled |-> c, execUrl |-> u, result |-> "null"] :
        c \in BOOLEAN, u \in BuildUrls \cup {Falsy} }
BuildDocs ==
    { [parse |-> "doc", cancelled |-> FALSE, execUrl |-> u, result |-> r] :
        u \in BuildUrls, r \in {"SUCCESS", "FAILURE", "ABORTED", "null"} }
ErrorCodes == {502, 404}
StatusFailures ==
    { [err |-> TRUE, code |-> 0, body |-> NoDoc] }
    \cup { [err |-> FALSE, code |-> c, body |-> NoDoc] : c \in ErrorCodes }
OkResponses(docs) ==
    { [err |-> FALSE, code |-> 200, body |-> d] : d \in docs \cup {NoDoc, NullDoc} }

VARIABLES
    pc,              \* position of main(): see the actions
    wait,            \* core.getInput("wait") == "true"
    parameterOk,     \* core.getInput("parameter") is empty or parses as JSON
    timer,           \* "armed", "fired" or "cleared"
    exitCode,        \* process exit code: 1 once core.setFailed ran or the process crashed
    messages,        \* the messages passed to core.setFailed
    unhandled,       \* main() ended with a rejected promise
    queueItemUrl,    \* main: the Location header
    buildUrl,        \* waitJenkinsJob: local buildUrl
    jenkinsBuildUrl, \* module global
    outputs,         \* values passed to core.setOutput("jenkinsBuildUrl", ..)
    failureCount,
    successCount,
    reqUrl,          \* URL of the status request in flight (or of the last one)
    lifecycle,       \* lifecycle state reached by waitJenkinsJob
    \* history of the run, for the properties
    okPolls,         \* HTTP-200 status responses received
    n502,            \* HTTP-502 status responses received
    lastCode,        \* status code of the last status response (0: none, -1: transport error)
    lastPhase,       \* phase of the last status response
    onlySuccess,     \* every build-poll response so far was a 200 with result SUCCESS
    successReads,    \* build polls with result SUCCESS
    lastReads,       \* results of the last SUCCESS_THRESHOLD 200/non-empty build polls
    cancelSeen,      \* "no", "plain" or "withExec": a cancelled queue document was received
    otherUrlSeen,    \* a build document carrying a URL other than jenkinsBuildUrl was received
    lastBody,        \* what the body of the last status response parsed to ("none": no response)
    triggers,        \* trigger POSTs issued
    triggerOutcome,  \* "none", "error", "noLocation" or "location": the response to the POST
    location         \* the Location header received

vars == << pc, wait, parameterOk, timer, exitCode, messages, unhandled,
           queueItemUrl, buildUrl, jenkinsBuildUrl, outputs, failureCount,
           successCount, reqUrl, lifecycle, okPolls, n502, lastCode, lastPhase,
           onlySuccess, successReads, lastReads, cancelSeen, otherUrlSeen,
           lastBody, triggers, triggerOutcome, location >>

histVars == << okPolls, n502, lastCode, lastPhase, onlySuccess,
               successReads, lastReads, cancelSeen, otherUrlSeen, lastBody >>

trigVars == << triggers, triggerOutcome, location >>

\* variant: the Location header is not checked
triggerJenkinsJob_NoCheck(res) ==
    IF res.err
    THEN [settle |-> "reject", value |-> Falsy, message |-> "TransportError"]
    ELSE [settle |-> "resolve", value |-> res.location, message |-> "none"]

\* triggerJenkinsJob, lines 56-75: the callback of the trigger POST
triggerJenkinsJob(res) ==
    IF res.err
    THEN [settle |-> "reject", value |-> Falsy, message |-> "TransportError"]
    ELSE IF res.location = Falsy
    THEN [settle |-> "reject", value |-> Falsy,
          message |-> "Failed to find location header in response!"]
    ELSE [settle |-> "resolve", value |-> res.location, message |-> "none"]

\* ------------------------------------------------------------ pure helpers
\* getJobStatus, lines 80-84: the URL requested for a status URL
StatusRequestUrl(statusUrl) ==
    (IF Len(statusUrl) > 0 /\ statusUrl[Len(statusUrl)] = "/"
        THEN statusUrl ELSE Append(statusUrl, "/")) \o <<"api", "json">>

\* getJobStatus, line 102
ThresholdExceeded(fc) == fc > FAILURE_THRESHOLD

\* variant: the escalating call returns after its reject
getJobStatus_ReturnOnEscalate(res, fc) ==
    IF res.err
    THEN [settle |-> "crash", error |-> "TransportError", failureCount |-> fc,
          clearTimer |-> TRUE]
    ELSE IF res.code = 200
    THEN IF res.body.parse = "invalid"
         THEN [settle |-> "crash", error |-> "SyntaxError", failureCount |-> fc,
               clearTimer |-> FALSE]
         ELSE [settle |-> "resolve", error |-> "none", failureCount |-> fc,
               clearTimer |-> FALSE]
    ELSE IF res.code = 502
    THEN IF ThresholdExceeded(fc)
         THEN [settle |-> "reject", error |-> "FailureThreshold",
               failureCount |-> fc, clearTimer |-> FALSE]
         ELSE [settle |-> "reject", error |-> "BadGateway",
               failureCount |-> fc + 1, clearTimer |-> FALSE]
    ELSE [settle |-> "reject", error |-> "UnknownCode", failureCount |-> fc,
          clearTimer |-> FALSE]

\* getJobStatus, lines 90-122: the request callback.  The promise settles
\* with the first resolve/reject; the statements after it still run.
\*   err:  clearTimeout, reject(err), then res.statusCode of an undefined
\*         res throws inside the callback: the process dies
\*   200:  resolve(JSON.parse(body)); a body that does not parse throws
\*         inside the callback: the process dies
\*   502:  reject(JenkinsAPIError) when over the threshold, then
\*         failureCount += 1, then reject(BadGatewayError) and the
\*         fall-through reject of the default case, both without effect
\*         on a settled promise
\*   else: reject(JenkinsAPIError unknown code)
getJobStatus(res, fc) ==
    IF res.err
    THEN [settle |-> "crash", error |-> "TransportError", failureCount |-> fc,
          clearTimer |-> TRUE]
    ELSE IF res.code = 200
    THEN IF res.body.parse = "invalid"
         THEN [settle |-> "crash", error |-> "SyntaxError", failureCount |-> fc,
               clearTimer |-> FALSE]
         ELSE [settle |-> "resolve", error |-> "none", failureCount |-> fc,
               clearTimer |-> FALSE]
    ELSE IF res.code = 502
    THEN [settle |-> "reject",
          error |-> IF ThresholdExceeded(fc) THEN "FailureThreshold" ELSE "BadGateway",
          failureCount |-> fc + 1, clearTimer |-> FALSE]
    ELSE [settle |-> "reject", error |-> "UnknownCode", failureCount |-> fc,
          clearTimer |-> FALSE]

\* variant: the queue is never polled again after the first poll
needsQueuePoll_Never(bu) == FALSE

\* variant: the queue is polled on every iteration
needsQueuePoll_Always(bu) == TRUE

\* waitJenkinsJob, line 133
needsQueuePoll(bu) == bu = Falsy

\* variant: the executable descriptor is looked at before the cancelled flag
QueueOutcome_ExecFirst(queueData) ==
    IF queueData.parse = "null" THEN "typeError"
    ELSE IF queueData.execUrl # Falsy THEN "assigned"
    ELSE IF queueData.cancelled THEN "cancelled"
    ELSE "queued"

\* waitJenkinsJob, lines 136-158: what a queue document leads to
QueueOutcome(queueData) ==
    IF queueData.parse = "null" THEN "typeError"
    ELSE IF queueData.cancelled THEN "cancelled"
    ELSE IF queueData.execUrl # Falsy THEN "assigned"
    ELSE "queued"

\* variant: one earlier SUCCESS read is enough
SuccessReached_One(sc) == sc >= 1

\* waitJenkinsJob, line 174
SuccessReached(sc) == sc >= SUCCESS_THRESHOLD

\* variant: ABORTED is not recognised as a failed build
BuildOutcome_NoAborted(buildData, sc) ==
    IF buildData.parse = "null" THEN "empty"
    ELSE IF buildData.result = "SUCCESS"
    THEN IF SuccessReached(sc) THEN "succeeded" ELSE "counted"
    ELSE IF buildData.result = "FAILURE" THEN "failed"
    ELSE "running"

\* waitJenkinsJob, lines 164-193: what a build document leads to
BuildOutcome(buildData, sc) ==
    IF buildData.parse = "null" THEN "empty"
    ELSE IF buildData.result = "SUCCESS"
    THEN IF SuccessReached(sc) THEN "succeeded" ELSE "counted"
    ELSE IF buildData.result \in {"FAILURE", "ABORTED"} THEN "failed"
    ELSE "running"

\* variant: the catch retries after any error
isTransient_Always(error) == TRUE

\* waitJenkinsJob, lines 194-204: the catch around the build poll
isTransient(error) == error = "BadGateway"

\* variant: the callback logs the timeout without failing the action
timerCallback_LogOnly(ec, msgs) ==
    [exitCode |-> ec, messages |-> msgs \cup {"Job Timeout"}]

\* lines 33-36: the timer callback
timerCallback(ec, msgs) ==
    [exitCode |-> 1, messages |-> msgs \cup {"Job Timeout"}]

\* variant: the timer is left armed
clearTimeout_Noop(t) == t

\* clearTimeout(timer): no effect on a timer that has fired
clearTimeout(t) == IF t = "armed" THEN "cleared" ELSE t

Last(seq, n) == IF Len(seq) <= n THEN seq ELSE SubSeq(seq, Len(seq) - n + 1, Len(seq))


\* the message of the Error thrown at line 203
Wrapped(message) == "Prod-to-env sync job failed, " \o message

Suspended == {"trigger_wait", "queue_wait", "queue_sleep", "build_wait", "build_sleep"}
PollStates == {"queue_wait", "queue_sleep", "build_wait", "build_sleep"}
Ended == {"done", "crashed"}

\* ---------------------------------------------------------------- the run
Init ==
    /\ pc = "start"
    /\ wait \in BOOLEAN
    /\ parameterOk \in BOOLEAN
    /\ timer = "armed"
    /\ exitCode = 0
    /\ messages = {}
    /\ unhandled = FALSE
    /\ queueItemUrl = Falsy
    /\ buildUrl = Falsy
    /\ jenkinsBuildUrl = Falsy
    /\ outputs = <<>>
    /\ failureCount = 0
    /\ successCount = 0
    /\ reqUrl = Falsy
    /\ lifecycle = "NotEntered"
    /\ okPolls = 0
    /\ n502 = 0
    /\ lastCode = 0
    /\ lastPhase = "none"
    /\ onlySuccess = TRUE
    /\ successReads = 0
    /\ lastReads = <<>>
    /\ cancelSeen = "no"
    /\ otherUrlSeen = FALSE
    /\ lastBody = "none"
    /\ triggers = 0
    /\ triggerOutcome = "none"
    /\ location = Falsy

\* variant: the catch of main starts main over
MainCatch_Restart(message, lc) ==
    /\ pc' = "start"
    /\ exitCode' = 1
    /\ messages' = messages \cup {message}
    /\ timer' = timer
    /\ lifecycle' = lc
    /\ unhandled' = unhandled

\* main, lines 229-234: an error reaches the catch of main
\* (core.setFailed(err.message)), then finally clears the timer
MainCatch(message, lc) ==
    /\ pc' = "done"
    /\ exitCode' = 1
    /\ messages' = messages \cup {message}
    /\ timer' = clearTimeout(timer)
    /\ lifecycle' = lc
    /\ unhandled' = unhandled

\* variant: main returns without the finally that clears the timer
MainReturn_NoClear(lc) ==
    /\ pc' = "done"
    /\ timer' = timer
    /\ lifecycle' = lc
    /\ UNCHANGED << exitCode, messages, unhandled >>

\* main, lines 232-234: main leaves its try block normally
MainReturn(lc) ==
    /\ pc' = "done"
    /\ timer' = clearTimeout(timer)
    /\ lifecycle' = lc
    /\ UNCHANGED << exitCode, messages, unhandled >>

\* an exception thrown inside a request callback is uncaught: node exits
\* with a non-zero code before any promise continuation runs
Crash(clear) ==
    /\ pc' = "crashed"
    /\ exitCode' = 1
    /\ timer' = IF clear THEN clearTimeout(timer) ELSE timer
    /\ UNCHANGED << messages, unhandled, lifecycle >>

\* the run suspends again at p
Suspend(p, lc) ==
    /\ pc' = p
    /\ lifecycle' = lc
    /\ UNCHANGED << exitCode, messages, unhandled, timer >>

\* main, lines 210-219: parse the parameters, issue the trigger POST
MainStart ==
    /\ pc = "start"
    /\ IF parameterOk
       THEN Suspend("trigger_wait", lifecycle)
       ELSE MainCatch("SyntaxError", lifecycle)
    /\ triggers' = IF parameterOk THEN triggers + 1 ELSE triggers
    /\ UNCHANGED << wait, parameterOk, queueItemUrl, buildUrl, jenkinsBuildUrl,
                    outputs, failureCount, successCount, reqUrl >>
    /\ UNCHANGED << triggerOutcome, location >>
    /\ UNCHANGED histVars

\* triggerJenkinsJob, lines 56-75, and main, lines 219-234.
\* A failed trigger calls core.setFailed, clears the timer and rejects with
\* no value; the catch of main then throws on err.message, the finally runs
\* and main() ends rejected.
TriggerStep(res) ==
    LET tr == triggerJenkinsJob(res) IN
    /\ triggerOutcome' = IF res.err THEN "error"
                         ELSE IF res.location = Falsy THEN "noLocation"
                         ELSE "location"
    /\ location' = res.location
    /\ IF tr.settle = "reject"
       THEN /\ pc' = "done"
            /\ exitCode' = 1
            /\ messages' = messages \cup {tr.message}
            /\ timer' = clearTimeout(timer)
            /\ unhandled' = TRUE
            /\ UNCHANGED << queueItemUrl, reqUrl, lifecycle >>
       ELSE /\ queueItemUrl' = tr.value
            /\ IF wait
               THEN /\ Suspend("queue_wait", "AwaitingQueueAssignment")
                    /\ reqUrl' = StatusRequestUrl(tr.value)
               ELSE /\ MainReturn(lifecycle)
                    /\ UNCHANGED reqUrl
    /\ UNCHANGED << wait, parameterOk, buildUrl, jenkinsBuildUrl, outputs,
                    failureCount, successCount, triggers >>
    /\ UNCHANGED histVars

\* the response to the trigger POST arrives
TriggerResponse ==
    /\ pc = "trigger_wait"
    /\ \E res \in TriggerResponses : TriggerStep(res)

\* the status responses the environment can still deliver
StatusResponses(docs) ==
    StatusFailures \cup (IF okPolls < MaxOkPolls THEN OkResponses(docs) ELSE {})

\* bookkeeping common to both polls
Observe(res, phase) ==
    /\ okPolls' = IF ~res.err /\ res.code = 200 THEN okPolls + 1 ELSE okPolls
    /\ n502' = IF ~res.err /\ res.code = 502 THEN n502 + 1 ELSE n502
    /\ lastCode' = IF res.err THEN -1 ELSE res.code
    /\ lastPhase' = phase
    /\ lastBody' = IF ~res.err /\ res.code = 200 THEN res.body.parse ELSE "none"

\* waitJenkinsJob, lines 133-159: the response to a queue poll.  The poll is
\* outside the try block: every rejection leaves waitJenkinsJob.
QueueStep(res) ==
        LET st == getJobStatus(res, failureCount)
            out == QueueOutcome(res.body)
            assigned == st.settle = "resolve" /\ out = "assigned"
        IN
        /\ Observe(res, "queue")
        /\ failureCount' = st.failureCount
        /\ cancelSeen' = IF st.settle = "resolve" /\ res.body.cancelled
                         THEN (IF res.body.execUrl # Falsy THEN "withExec" ELSE "plain")
                         ELSE cancelSeen
        /\ buildUrl' = IF assigned THEN res.body.execUrl ELSE buildUrl
        /\ jenkinsBuildUrl' = IF assigned THEN res.body.execUrl ELSE jenkinsBuildUrl
        /\ outputs' = IF assigned THEN Append(outputs, res.body.execUrl) ELSE outputs
        /\ CASE st.settle = "crash" -> Crash(st.clearTimer) /\ UNCHANGED reqUrl
             [] st.settle = "reject" -> MainCatch(st.error, "Fatal") /\ UNCHANGED reqUrl
             [] st.settle = "resolve" /\ out = "typeError" ->
                    MainCatch("TypeError", "Fatal") /\ UNCHANGED reqUrl
             [] st.settle = "resolve" /\ out = "cancelled" ->
                    MainCatch("Job was cancelled.", "Cancelled") /\ UNCHANGED reqUrl
             [] st.settle = "resolve" /\ out = "queued" ->
                    Suspend("queue_sleep", lifecycle) /\ UNCHANGED reqUrl
             [] assigned ->
                    IF needsQueuePoll(res.body.execUrl)
                    THEN Suspend("queue_sleep", "AwaitingBuildTermination")
                         /\ UNCHANGED reqUrl
                    ELSE Suspend("build_wait", "AwaitingBuildTermination")
                         /\ reqUrl' = StatusRequestUrl(res.body.execUrl)
        /\ UNCHANGED << wait, parameterOk, queueItemUrl, successCount >>
        /\ UNCHANGED << onlySuccess, successReads, lastReads, otherUrlSeen >>
        /\ UNCHANGED trigVars

\* the response to the queue poll in flight arrives
QueueResponse ==
    /\ pc = "queue_wait"
    /\ \E res \in StatusResponses(QueueDocs) : QueueStep(res)

\* waitJenkinsJob, lines 161-205: the response to a build poll
BuildStep(res) ==
        LET st == getJobStatus(res, failureCount)
            out == BuildOutcome(res.body, successCount)
            ok == st.settle = "resolve"
            read == ok /\ res.body.parse = "doc"
        IN
        /\ Observe(res, "build")
        /\ failureCount' = st.failureCount
        /\ successCount' = IF ok /\ out = "counted" THEN successCount + 1 ELSE successCount
        /\ onlySuccess' = (onlySuccess /\ read /\ res.body.result = "SUCCESS")
        /\ successReads' = IF read /\ res.body.result = "SUCCESS"
                           THEN successReads + 1 ELSE successReads
        /\ lastReads' = IF read
                        THEN Last(Append(lastReads, res.body.result), SUCCESS_THRESHOLD)
                        ELSE lastReads
        /\ otherUrlSeen' = (otherUrlSeen \/ (read /\ res.body.execUrl # jenkinsBuildUrl))
        /\ CASE st.settle = "crash" -> Crash(st.clearTimer)
             [] st.settle = "reject" ->
                    IF isTransient(st.error)
                    THEN Suspend("build_sleep", lifecycle)
                    ELSE MainCatch(Wrapped(st.error), "Fatal")
             [] ok /\ out = "succeeded" -> MainReturn("Succeeded")
             [] ok /\ out = "failed" -> MainCatch(Wrapped("Job failed."), "Failed")
             [] ok /\ out \in {"empty", "counted", "running"} ->
                    Suspend("build_sleep", lifecycle)
        /\ UNCHANGED << wait, parameterOk, queueItemUrl, buildUrl, jenkinsBuildUrl,
                        outputs, reqUrl, cancelSeen >>
        /\ UNCHANGED trigVars

\* the response to the build poll in flight arrives
BuildResponse ==
    /\ pc = "build_wait"
    /\ \E res \in StatusResponses(BuildDocs) : BuildStep(res)

\* sleep, lines 38-42, then the top of the loop, lines 131-134 and 161-162:
\* the next status request is issued
SleepDone ==
    /\ pc \in {"queue_sleep", "build_sleep"}
    /\ IF needsQueuePoll(buildUrl)
       THEN /\ Suspend("queue_wait", lifecycle)
            /\ reqUrl' = StatusRequestUrl(queueItemUrl)
       ELSE /\ Suspend("build_wait", lifecycle)
            /\ reqUrl' = StatusRequestUrl(buildUrl)
    /\ UNCHANGED << wait, parameterOk, queueItemUrl, buildUrl, jenkinsBuildUrl,
                    outputs, failureCount, successCount >>
    /\ UNCHANGED histVars
    /\ UNCHANGED trigVars

\* lines 33-36: the timeout elapses while main is suspended
TimerFire ==
    /\ timer = "armed"
    /\ pc \in Suspended
    /\ timer' = "fired"
    /\ exitCode' = timerCallback(exitCode, messages).exitCode
    /\ messages' = timerCallback(exitCode, messages).messages
    /\ UNCHANGED << pc, wait, parameterOk, unhandled, queueItemUrl, buildUrl,
                    jenkinsBuildUrl, outputs, failureCount, successCount, reqUrl,
                    lifecycle >>
    /\ UNCHANGED histVars
    /\ UNCHANGED trigVars

Next ==
    \/ MainStart
    \/ TriggerResponse
    \/ QueueResponse
    \/ BuildResponse
    \/ SleepDone
    \/ TimerFire

Spec == Init /\ [][Next]_vars

\* ------------------------------------------------- the cooperative server
\* The run with waiting requested against a server that answers the POST
\* with a Location header and every poll with a 200 and a document: the
\* queue document is not cancelled and carries the executable URL at the
\* latest when MaxOkPolls documents have been delivered, the build
\* document reports SUCCESS from then on and "still running" (or a null
\* document) before.  The timer does not fire.
LiveTriggerResponses ==
    { r \in TriggerResponses : ~r.err /\ r.location # Falsy }
LiveQueueResponses ==
    { r \in OkResponses(QueueDocs) :
        /\ r.body.parse = "doc"
        /\ ~r.body.cancelled
        /\ (okPolls < MaxOkPolls \/ r.body.execUrl # Falsy) }
LiveBuildResponses ==
    { r \in OkResponses(BuildDocs) :
        \/ (r.body.parse = "doc" /\ r.body.result = "SUCCESS")
        \/ (okPolls < MaxOkPolls /\ r.body.parse # "invalid" /\ r.body.result = "null") }

LiveInit == Init /\ wait /\ parameterOk

LiveTriggerResponse ==
    /\ pc = "trigger_wait"
    /\ \E res \in LiveTriggerResponses : TriggerStep(res)

LiveQueueResponse ==
    /\ pc = "queue_wait"
    /\ \E res \in LiveQueueResponses : QueueStep(res)

LiveBuildResponse ==
    /\ pc = "build_wait"
    /\ \E res \in LiveBuildResponses : BuildStep(res)

LiveNext ==
    \/ MainStart
    \/ LiveTriggerResponse
    \/ LiveQueueResponse
    \/ LiveBuildResponse
    \/ SleepDone

\* every request is answered and every sleep ends
LiveSpec == LiveInit /\ [][LiveNext]_vars /\ WF_vars(LiveNext)


\* --------------------------------------------------------------- properties
AllSuccess == [i \in 1..SUCCESS_THRESHOLD |-> "SUCCESS"]

\* C1: SUCCESS_THRESHOLD consecutive SUCCESS build polls, with no other
\* build response before or between them, end the run as Succeeded on the
\* last of them: the run does not sleep and poll again.
C1_SucceedsOnThresholdRead ==
    (onlySuccess /\ successReads = SUCCESS_THRESHOLD)
        => (pc = "done" /\ lifecycle = "Succeeded")

\* C2: the run is Succeeded only if at least SUCCESS_THRESHOLD build polls
\* with result SUCCESS were observed.
C2_SuccessNeedsThresholdReads ==
    lifecycle = "Succeeded" => successReads >= SUCCESS_THRESHOLD

C2_Witness ==
    pc = "done" /\ lifecycle = "Succeeded" /\ exitCode = 0

\* C3: when the run is Succeeded, the last SUCCESS_THRESHOLD build polls that
\* returned a document all reported SUCCESS.
C3_SuccessReadsConsecutive ==
    lifecycle = "Succeeded" => lastReads = AllSuccess

\* C4: a 502 received while at most FAILURE_THRESHOLD 502s have been seen is
\* transient in either phase: the run sleeps and retries the same poll.
C4_502IsTransient ==
    (lastCode = 502 /\ n502 <= FAILURE_THRESHOLD)
        => /\ lastPhase = "queue" => pc \in {"queue_sleep", "queue_wait"}
           /\ lastPhase = "build" => pc \in {"build_sleep", "build_wait"}

\* C5: the 502 that brings the number of 502s above FAILURE_THRESHOLD ends
\* the run with the threshold error.
C5_ThresholdIsFatal ==
    (lastCode = 502 /\ n502 > FAILURE_THRESHOLD)
        => /\ pc = "done"
           /\ exitCode = 1
           /\ messages \cap {"FailureThreshold", Wrapped("FailureThreshold")} # {}

\* C6: once the timer has fired the run is reported failed with "Job
\* Timeout", whatever is received afterwards and however the run ends.
C6_TimeoutMeansFailure ==
    timer = "fired" => (exitCode = 1 /\ "Job Timeout" \in messages)

C6_Witness ==
    timer = "fired" /\ pc = "done" /\ lifecycle = "Succeeded"
        /\ successReads > SUCCESS_THRESHOLD

\* C7: after the timer has fired no status request is issued and no sleep is
\* started.
C7_NoPollAfterTimeout ==
    [][timer = "fired" => pc' \notin PollStates]_vars

\* C8: the output jenkinsBuildUrl is set at most once, by a queue response,
\* and neither it nor the URL used for the build polls changes afterwards.
C8_BuildUrlStable ==
    /\ [](/\ Len(outputs) <= 1
          /\ jenkinsBuildUrl # Falsy =>
                (outputs = << jenkinsBuildUrl >> /\ buildUrl = jenkinsBuildUrl)
          /\ pc = "build_wait" => reqUrl = StatusRequestUrl(jenkinsBuildUrl))
    /\ [][/\ jenkinsBuildUrl # Falsy =>
                (jenkinsBuildUrl' = jenkinsBuildUrl /\ outputs' = outputs)
          /\ outputs' # outputs => (pc = "queue_wait" /\ outputs = <<>>)]_vars

C8_Witness ==
    jenkinsBuildUrl # Falsy /\ otherUrlSeen /\ pc = "build_sleep"

\* C9: a cancelled queue document ends the run as Cancelled, also when it
\* carries an executable URL: nothing is captured or published and no build
\* poll is issued.
C9_CancelWins ==
    cancelSeen # "no"
        => /\ pc = "done"
           /\ lifecycle = "Cancelled"
           /\ exitCode = 1
           /\ "Job was cancelled." \in messages
           /\ buildUrl = Falsy
           /\ jenkinsBuildUrl = Falsy
           /\ outputs = <<>>
           /\ lastPhase = "queue"
           /\ reqUrl = StatusRequestUrl(queueItemUrl)

C9_Witness ==
    cancelSeen = "withExec" /\ pc = "done"

\* C10: an ended run reports success exactly when the lifecycle reached
\* Succeeded, or waiting was not requested and the trigger returned a
\* Location header.
C10_ExitBehaviour ==
    pc \in Ended
        => ((exitCode = 0) <=>
              (lifecycle = "Succeeded" \/ (~wait /\ queueItemUrl # Falsy)))


Terminal == {"Succeeded", "Failed", "Cancelled"}

\* C11: a trigger POST that fails or whose response has no Location header
\* ends the run failed without entering the lifecycle or issuing a status
\* request; a Location header received is the URL of every queue poll.
C11_TriggerFailure ==
    /\ triggerOutcome \in {"error", "noLocation"}
          => /\ pc = "done"
             /\ exitCode = 1
             /\ lifecycle = "NotEntered"
             /\ queueItemUrl = Falsy
             /\ reqUrl = Falsy
             /\ lastPhase = "none"
    /\ triggerOutcome = "location"
          => /\ queueItemUrl = location
             /\ pc = "queue_wait" => reqUrl = StatusRequestUrl(location)
             /\ lastPhase = "queue" => lifecycle # "NotEntered"

C11_Witness ==
    triggerOutcome = "noLocation" /\ wait /\ pc = "done"

C13_TransientKeepsState ==
    [][/\ (pc \in {"queue_wait", "build_wait"} /\ n502' = n502 + 1
              /\ ~ThresholdExceeded(failureCount))
          => /\ lifecycle' = lifecycle
             /\ buildUrl' = buildUrl
             /\ outputs' = outputs
             /\ successCount' = successCount
             /\ failureCount' >= failureCount
             /\ pc' = (IF pc = "queue_wait" THEN "queue_sleep" ELSE "build_sleep")
       /\ (pc \in {"queue_sleep", "build_sleep"} /\ lastCode = 502)
          => reqUrl' = reqUrl]_vars

\* C14: failureCount is the number of 502 responses received: it never
\* decreases, grows by one on every 502 and is unchanged by anything else.
C14_FailureCountIs502s ==
    /\ [](failureCount = n502)
    /\ [][/\ failureCount' >= failureCount
          /\ n502' = n502 + 1 => failureCount' = failureCount + 1
          /\ n502' = n502 => failureCount' = failureCount]_vars

C14_Witness ==
    n502 = FAILURE_THRESHOLD + 2 /\ pc = "done"

\* C15: a status response with a code other than 200 and 502, or a
\* transport error, ends the run failed at once, in either phase, and
\* leaves failureCount alone.
C15_OtherCodesFatal ==
    /\ [](lastCode \in ({-1} \cup (ErrorCodes \ {502}))
            => (pc \in Ended /\ exitCode = 1))
    /\ [][(pc \in {"queue_wait", "build_wait"} /\ lastCode' \notin {200, 502})
            => failureCount' = failureCount]_vars

C15_Witness ==
    lastCode = 404 /\ lastPhase = "build" /\ pc = "done" /\ failureCount > 0

\* C16: a build document with result FAILURE or ABORTED ends the run as
\* Failed at that poll, whatever successCount is.
C16_BuildFailureTerminal ==
    (Len(lastReads) > 0 /\ lastReads[Len(lastReads)] \in {"FAILURE", "ABORTED"})
        => (pc = "done" /\ lifecycle = "Failed" /\ exitCode = 1)

C16_Witness ==
    /\ Len(lastReads) > 0
    /\ lastReads[Len(lastReads)] = "ABORTED"
    /\ successCount = SUCCESS_THRESHOLD - 1

\* C17: a 200 build response whose body is empty (does not parse) or parses
\* to a null document is "not ready yet": the run sleeps and polls again.
C17_EmptyBodyNotReady ==
    (lastPhase = "build" /\ lastCode = 200 /\ lastBody \in {"invalid", "null"})
        => (pc \in {"build_sleep", "build_wait"}
            /\ lifecycle = "AwaitingBuildTermination")

C19_PhaseOrder ==
    /\ [](/\ lifecycle # "NotEntered" => (wait /\ triggerOutcome = "location")
          /\ (pc = "build_wait" \/ lastPhase = "build")
                => (buildUrl # Falsy /\ Len(outputs) = 1)
          /\ buildUrl # Falsy => pc \notin {"queue_wait", "queue_sleep"}
          /\ lifecycle \in Terminal => pc = "done")
    /\ [][(lifecycle \in Terminal) => pc' = pc]_vars

C19_Witness ==
    lifecycle = "Succeeded" /\ lastPhase = "build"
        /\ okPolls >= SUCCESS_THRESHOLD + 3

\* C20: against the cooperative server, with every request answered and
\* every sleep ended, the run eventually ends Succeeded, reports success
\* and has cleared the timer.
C20_EventuallySucceeds ==
    <>(pc = "done" /\ lifecycle = "Succeeded" /\ exitCode = 0 /\ timer = "cleared")

C20_Witness ==
    pc = "done" /\ lifecycle = "Succeeded" /\ timer = "cleared"
        /\ okPolls >= SUCCESS_THRESHOLD + 4

====
